---- MODULE Spec2Model ----
(***************************************************************************)
(* QuizMaster server: the in-memory store (server/storage.ts, MemStorage)  *)
(* and the route handlers over it (server/routes.ts).                      *)
(*                                                                         *)
(* The store's Maps keep insertion order and ids only grow, so a Map is a  *)
(* function over its ids and "iteration order" is increasing id.  The      *)
(* quizSessions Map, from which nothing is ever deleted, is the sequence   *)
(* of its values (the session at index i has id i).                        *)
(*                                                                         *)
(* JSON values that reach a handler untyped (req.body is never validated   *)
(* by the quiz and catalog routes) are pairs <<type, n>>:                  *)
(*   <<"number", n>>     the number n                                      *)
(*   <<"string", n>>     the string spelling the numeral n ("1")           *)
(*   <<"text", 0>>       a string that is not a numeral ("abc")            *)
(*   <<"undefined", 0>>  a missing field                                   *)
(*   <<"NaN", 0>>        parseInt's NaN                                    *)
(*   <<"object", 0>>     an object; an answers object is a function        *)
(***************************************************************************)
EXTENDS Integers, Sequences, FiniteSets, TLC

VARIABLES users, themes, questions, quizSessions, userStats,
          currentThemeId, currentQuestionId, resp, inflight, quiz

vars == <<users, themes, questions, quizSessions, userStats,
          currentThemeId, currentQuestionId, resp, inflight, quiz>>

store == <<users, themes, questions, quizSessions, userStats,
           currentThemeId, currentQuestionId>>

----------------------------------------------------------------------------
(* Bounds of the model *)

MaxSessions == 3
MaxAttempts == 1
MaxThemeId == 2
MaxQuestionId == 3
MaxInFlight == 2
MaxUsers == 4
MaxPosts == 2

----------------------------------------------------------------------------
(* JSON values *)

Num(n) == <<"number", n>>
Str(n) == <<"string", n>>
Text == <<"text", 0>>
Undefined == <<"undefined", 0>>
NaN == <<"NaN", 0>>
Null == <<"null", 0>>

TypeOf(v) == v[1]

\* JavaScript truthiness of a value: !v is FALSE
Truthy(v) ==
    CASE v[1] = "number" -> v[2] # 0
      [] v[1] = "string" -> TRUE
      [] v[1] = "text" -> TRUE
      [] v[1] = "object" -> TRUE
      [] OTHER -> FALSE

\* parseInt of a path parameter
ParseInt(v) ==
    CASE v[1] = "string" -> Num(v[2])
      [] v[1] = "number" -> v
      [] OTHER -> NaN

IsNaN(v) == v[1] = "NaN"

\* Math.floor(x / d) in the place of Math.round
MathFloor(x, d) == x \div d

\* Math.round(x / d) for d > 0: the nearest integer, halves towards +infinity
MathRound(x, d) == (2 * x + d) \div (2 * d)

\* the latest value in the place of the maximum
MathMaxLatest(a, b) == b

MathMax(a, b) == IF a >= b THEN a ELSE b

----------------------------------------------------------------------------
(* Users and callers *)

\* req.session.userId of a request that carries no session
NoSession == 0

AdminId == 1
DemoUserId == 2

\* seedData: the admin and the demo user
\* bcrypt.hash(password, 10): the stored hash of a password
Hash(password) == <<"bcrypt", password>>

SeedUsers ==
    (AdminId :> [id |-> AdminId, username |-> "admin",
                 email |-> "admin@quizmaster.com", password |-> Hash("admin123"),
                 role |-> "admin", points |-> 5000]) @@
    (DemoUserId :> [id |-> DemoUserId, username |-> "johndoe",
                    email |-> "john.doe@email.com", password |-> Hash("user123"),
                    role |-> "user", points |-> 1250])

\* A request's session is empty or was set by a login or a registration
Callers == DOMAIN users \cup {NoSession}

----------------------------------------------------------------------------
(* Catalog: the seed, cut to its first theme and that theme's first two    *)
(* questions (the full seed has 12 themes)                                 *)

SeedThemes == (1 :> [id |-> 1, name |-> "Informatique", isActive |-> TRUE])

SeedQuestions ==
    (1 :> [id |-> 1, themeId |-> Num(1), correctAnswer |-> 1, explanation |-> Text]) @@
    (2 :> [id |-> 2, themeId |-> Num(1), correctAnswer |-> 0, explanation |-> Null])

\* Array.from(map.values()): the ids of a Map in insertion order
RECURSIVE IdsInOrder(_)
IdsInOrder(S) ==
    IF S = {} THEN <<>>
    ELSE LET m == CHOOSE x \in S : \A y \in S : x <= y
         IN <<m>> \o IdsInOrder(S \ {m})

\* {...a, ...b}
Spread(a, b) ==
    [f \in DOMAIN a \cup DOMAIN b |-> IF f \in DOMAIN b THEN b[f] ELSE a[f]]

\* map.set(k, v)
MapSet(map, k, v) ==
    [x \in DOMAIN map \cup {k} |-> IF x = k THEN v ELSE map[x]]

\* map.delete(k)
MapDelete(map, k) == [x \in DOMAIN map \ {k} |-> map[x]]

\* the filter on themeId is missing: every question is returned
getQuestionsByThemeUnfiltered(qmap, themeId) ==
    LET ord == IdsInOrder(DOMAIN qmap)
    IN [i \in 1..Len(ord) |-> qmap[ord[i]]]

\* getQuestionsByTheme on the questions Map qmap (this.questions)
getQuestionsByTheme(qmap, themeId) ==
    LET ids == {q \in DOMAIN qmap : qmap[q].themeId = themeId}
        ord == IdsInOrder(ids)
    IN [i \in 1..Len(ord) |-> qmap[ord[i]]]

----------------------------------------------------------------------------
(* Statistics *)

\* `${userId}`: the key names the user only
StatsKeyUserOnly(userId, themeId) == <<userId, 0>>

\* `${userId}-${themeId}`: a number and the string that spells it give the
\* same key
StatsKey(userId, themeId) == <<userId, themeId[2]>>

\* a new row is stored with the defaults, without ...statsUpdate
updateUserStatsDefaultsFirst(stats, userId, themeId, statsUpdate) ==
    LET key == StatsKey(userId, themeId)
        row == IF key \in DOMAIN stats
               THEN Spread(stats[key], statsUpdate)
               ELSE [userId |-> userId, themeId |-> themeId,
                     totalQuizzes |-> 0, bestScore |-> 0,
                     averageScore |-> 0, totalTimeSpent |-> 0]
    IN MapSet(stats, key, row)

\* { ...statsUpdate, ...existing }: the fields of the existing row win
updateUserStatsKeepExisting(stats, userId, themeId, statsUpdate) ==
    LET key == StatsKey(userId, themeId)
        row == IF key \in DOMAIN stats
               THEN Spread(statsUpdate, stats[key])
               ELSE Spread([userId |-> userId, themeId |-> themeId,
                            totalQuizzes |-> 0, bestScore |-> 0,
                            averageScore |-> 0, totalTimeSpent |-> 0],
                           statsUpdate)
    IN MapSet(stats, key, row)

updateUserStats(stats, userId, themeId, statsUpdate) ==
    LET key == StatsKey(userId, themeId)
        row == IF key \in DOMAIN stats
               THEN Spread(stats[key], statsUpdate)
               ELSE Spread([userId |-> userId, themeId |-> themeId,
                            totalQuizzes |-> 0, bestScore |-> 0,
                            averageScore |-> 0, totalTimeSpent |-> 0],
                           statsUpdate)
    IN MapSet(stats, key, row)

\* the existing row is overwritten as if the session were the pair's first
updateUserStatsAfterQuizFirstOnly(stats, session) ==
    updateUserStats(stats, session.userId, session.themeId,
        [totalQuizzes |-> 1,
         bestScore |-> session.score,
         averageScore |-> session.score,
         totalTimeSpent |-> session.timeSpent])

\* the new average divides by the count before the session
updateUserStatsAfterQuizOldCount(stats, session) ==
    LET key == StatsKey(session.userId, session.themeId)
    IN IF key \in DOMAIN stats
       THEN LET existing == stats[key]
            IN updateUserStats(stats, session.userId, session.themeId,
                   [totalQuizzes |-> existing.totalQuizzes + 1,
                    averageScore |->
                       MathRound(existing.averageScore * existing.totalQuizzes
                                   + session.score, existing.totalQuizzes),
                    bestScore |-> MathMax(existing.bestScore, session.score),
                    totalTimeSpent |-> existing.totalTimeSpent + session.timeSpent])
       ELSE updateUserStats(stats, session.userId, session.themeId,
                   [totalQuizzes |-> 1,
                    bestScore |-> session.score,
                    averageScore |-> session.score,
                    totalTimeSpent |-> session.timeSpent])

updateUserStatsAfterQuiz(stats, session) ==
    LET key == StatsKey(session.userId, session.themeId)
    IN IF key \in DOMAIN stats
       THEN LET existing == stats[key]
                newTotalQuizzes == existing.totalQuizzes + 1
                newTotalTimeSpent == existing.totalTimeSpent + session.timeSpent
                newAverageScore ==
                    MathRound(existing.averageScore * existing.totalQuizzes
                                + session.score, newTotalQuizzes)
                newBestScore == MathMax(existing.bestScore, session.score)
            IN updateUserStats(stats, session.userId, session.themeId,
                   [totalQuizzes |-> newTotalQuizzes,
                    averageScore |-> newAverageScore,
                    bestScore |-> newBestScore,
                    totalTimeSpent |-> newTotalTimeSpent])
       ELSE updateUserStats(stats, session.userId, session.themeId,
                   [totalQuizzes |-> 1,
                    bestScore |-> session.score,
                    averageScore |-> session.score,
                    totalTimeSpent |-> session.timeSpent])

\* the id counter is not incremented: every session gets id 1 and
\* quizSessions.set(1, session) replaces the session stored before
createQuizSessionSameId(insertSession) ==
    LET session == Spread(insertSession, [id |-> 1])
    IN /\ quizSessions' = IF quizSessions = <<>> THEN <<session>>
                          ELSE [quizSessions EXCEPT ![1] = session]
       /\ userStats' = updateUserStatsAfterQuiz(userStats, session)

\* completedAt (the wall clock at creation) is not modelled
createQuizSession(insertSession) ==
    LET session == Spread(insertSession, [id |-> Len(quizSessions) + 1])
    IN /\ quizSessions' = Append(quizSessions, session)
       /\ userStats' = updateUserStatsAfterQuiz(userStats, session)

----------------------------------------------------------------------------
(* Access checks *)

\* requireAuth: 0 lets the request through
requireAuth(caller) == IF caller = NoSession THEN 401 ELSE 0

\* only the session is checked, the role is not
requireAdminSessionOnly(caller) == IF caller = NoSession THEN 401 ELSE 0

\* requireAdmin: 0 lets the request through
requireAdmin(caller) ==
    IF caller = NoSession THEN 401
    ELSE IF caller \notin DOMAIN users \/ users[caller].role # "admin" THEN 403
    ELSE 0

\* The response of a handler: the route, the HTTP status, the caller, the
\* request's input and the JSON body
Response(route, status, caller, req, body) ==
    [route |-> route, status |-> status, caller |-> caller, req |-> req,
     body |-> body]

NoResponse == Response("none", 0, NoSession, Undefined, Undefined)

----------------------------------------------------------------------------
(* GET /api/themes/:themeId/questions *)

\* const { correctAnswer, ...questionWithoutAnswer } = q: the explanation
\* stays in the view
questionWithoutCorrectAnswer(q) ==
    [f \in DOMAIN q \ {"correctAnswer"} |-> q[f]]

\* const { correctAnswer, explanation, ...questionWithoutAnswer } = q
questionWithoutAnswer(q) ==
    [f \in DOMAIN q \ {"correctAnswer", "explanation"} |-> q[f]]

\* <<status, body>> of the questions route over the questions Map qmap, for
\* a caller and a path parameter
QuestionsResult(qmap, caller, param) ==
    LET themeId == ParseInt(param)
        qs == getQuestionsByTheme(qmap, themeId)
    IN IF requireAuth(caller) # 0 THEN <<401, Undefined>>
       ELSE IF IsNaN(themeId) THEN <<400, Undefined>>
       ELSE IF caller \notin DOMAIN users THEN <<404, Undefined>>
       ELSE IF users[caller].role # "admin"
            THEN <<200, [i \in 1..Len(qs) |-> questionWithoutAnswer(qs[i])]>>
       ELSE <<200, qs>>

GetQuestions(caller, param) ==
    LET r == QuestionsResult(questions, caller, param)
    IN /\ resp' = Response("getQuestions", r[1], caller, param, r[2])
       /\ UNCHANGED store

----------------------------------------------------------------------------
(* Leaderboards *)

\* userSessions.reduce((sum, session) => sum + session.score, 0)
RECURSIVE SumScores(_)
SumScores(sessions) ==
    IF sessions = <<>> THEN 0
    ELSE Head(sessions).score + SumScores(Tail(sessions))

\* a descending sort that is not stable: an entry goes behind the later
\* entries of the same value
RECURSIVE SortDescendingTiesLast(_, _)
SortDescendingTiesLast(entries, field) ==
    IF entries = <<>> THEN <<>>
    ELSE LET first == Head(entries)
             rest == SortDescendingTiesLast(Tail(entries), field)
             k == Cardinality({j \in 1..Len(rest) : rest[j][field] >= first[field]})
         IN SubSeq(rest, 1, k) \o <<first>> \o SubSeq(rest, k + 1, Len(rest))

\* entries.sort((a, b) => b[field] - a[field]): descending, and stable (an
\* entry stays before the later entries of the same value)
RECURSIVE SortDescending(_, _)
SortDescending(entries, field) ==
    IF entries = <<>> THEN <<>>
    ELSE LET first == Head(entries)
             rest == SortDescending(Tail(entries), field)
             k == Cardinality({j \in 1..Len(rest) : rest[j][field] > first[field]})
         IN SubSeq(rest, 1, k) \o <<first>> \o SubSeq(rest, k + 1, Len(rest))

\* every entry carries the user's points accumulator as its totalScore
getGlobalLeaderboardOfPoints(umap, sessions) ==
    LET ids == IdsInOrder(DOMAIN umap)
        usersWithScores ==
            [i \in 1..Len(ids) |->
                Spread(umap[ids[i]], [totalScore |-> umap[ids[i]].points])]
    IN SortDescending(usersWithScores, "totalScore")

\* getGlobalLeaderboard over the users Map umap and the session log
getGlobalLeaderboard(umap, sessions) ==
    LET ids == IdsInOrder(DOMAIN umap)
        userSessions(id) == SelectSeq(sessions, LAMBDA s : s.userId = id)
        usersWithScores ==
            [i \in 1..Len(ids) |->
                Spread(umap[ids[i]],
                       [totalScore |-> SumScores(userSessions(ids[i]))])]
    IN SortDescending(usersWithScores, "totalScore")

\* the loop of getThemeLeaderboard: themeUsersBestScores (a Map in insertion
\* order, here the sequence best) after the sessions
RECURSIVE themeUsersBestScores(_, _, _, _)
themeUsersBestScores(umap, sessions, themeId, best) ==
    IF sessions = <<>> THEN best
    ELSE LET session == Head(sessions)
             at == {i \in 1..Len(best) : best[i].user.id = session.userId}
             entry == [user |-> umap[session.userId], bestScore |-> session.score]
             next ==
                IF session.themeId # themeId \/ session.userId \notin DOMAIN umap
                THEN best
                ELSE IF at = {} THEN Append(best, entry)
                ELSE LET i == CHOOSE i \in at : TRUE
                     IN IF session.score > best[i].bestScore
                        THEN [best EXCEPT ![i] = entry]
                        ELSE best
         IN themeUsersBestScores(umap, Tail(sessions), themeId, next)

\* the entries are returned in the order the users were first seen
getThemeLeaderboardUnsorted(umap, sessions, themeId) ==
    LET best == themeUsersBestScores(umap, sessions, themeId, <<>>)
    IN [i \in 1..Len(best) |->
           Spread(best[i].user, [bestScore |-> best[i].bestScore])]

\* getThemeLeaderboard(themeId) over the users Map umap and the session log
getThemeLeaderboard(umap, sessions, themeId) ==
    LET best == themeUsersBestScores(umap, sessions, themeId, <<>>)
    IN SortDescending([i \in 1..Len(best) |->
                          Spread(best[i].user, [bestScore |-> best[i].bestScore])],
                      "bestScore")

\* GET /api/leaderboard/global (no session needed)
GetGlobalLeaderboard ==
    /\ resp' = Response("globalLeaderboard", 200, NoSession, Undefined,
                        getGlobalLeaderboard(users, quizSessions))
    /\ UNCHANGED store

\* GET /api/leaderboard/theme/:themeId (no session needed)
GetThemeLeaderboard(param) ==
    LET themeId == ParseInt(param)
    IN /\ resp' = IF IsNaN(themeId)
                  THEN Response("themeLeaderboard", 400, NoSession, param, Undefined)
                  ELSE Response("themeLeaderboard", 200, NoSession, param,
                                getThemeLeaderboard(users, quizSessions, themeId))
       /\ UNCHANGED store

----------------------------------------------------------------------------
(* GET /api/users/me/stats *)

\* getUserQuizSessions(userId)
getUserQuizSessions(userId) == SelectSeq(quizSessions, LAMBDA s : s.userId = userId)

\* array.slice(-n): a new array of the last n elements
SliceLast(array, n) ==
    SubSeq(array, IF Len(array) > n THEN Len(array) - n + 1 ELSE 1, Len(array))

\* array.reverse()
Reverse(array) == [i \in 1..Len(array) |-> array[Len(array) + 1 - i]]

\* the rows of getUserStats are given as a set (their order is the insertion
\* order of the userStats Map, which the model does not keep)
GetMyStats(caller) ==
    /\ resp' = IF requireAuth(caller) # 0
               THEN Response("myStats", 401, caller, Undefined, Undefined)
               ELSE LET sessions == getUserQuizSessions(caller)
                    IN Response("myStats", 200, caller, Undefined,
                          [stats |-> {userStats[k] : k \in {x \in DOMAIN userStats :
                                                              x[1] = caller}},
                           totalQuizzes |-> Len(sessions),
                           recentSessions |-> Reverse(SliceLast(sessions, 5))])
    /\ UNCHANGED store

----------------------------------------------------------------------------
(* POST /api/quiz/submit *)

\* answers[question.id]
AnswerAt(answers, qid) ==
    IF answers.type = "object" /\ qid \in DOMAIN answers.map
    THEN answers.map[qid]
    ELSE Undefined

userAnswer(answers, question) ==
    LET a == AnswerAt(answers, question.id)
    IN IF TypeOf(a) = "number" THEN a[2] ELSE -1

isCorrect(answers, question) == userAnswer(answers, question) = question.correctAnswer

\* score += 2 on a correct answer
ScoreQuizWeighted(qs, answers) ==
    [score |-> 2 * Cardinality({i \in 1..Len(qs) : isCorrect(answers, qs[i])}),
     results |-> [i \in 1..Len(qs) |->
                    [questionId |-> qs[i].id,
                     correct |-> isCorrect(answers, qs[i]),
                     correctAnswer |-> qs[i].correctAnswer]]]

\* the forEach over the theme's questions: the score and the results list
ScoreQuiz(qs, answers) ==
    [score |-> Cardinality({i \in 1..Len(qs) : isCorrect(answers, qs[i])}),
     results |-> [i \in 1..Len(qs) |->
                    [questionId |-> qs[i].id,
                     correct |-> isCorrect(answers, qs[i]),
                     correctAnswer |-> qs[i].correctAnswer]]]

\* the body check of the handler: TRUE when the request is refused with 400
SubmitRefused(body) ==
    \/ ~Truthy(body.themeId)
    \/ ~Truthy(<<body.answers.type, 0>>)
    \/ TypeOf(body.timeSpent) # "number"

SubmitQuiz(caller, body) ==
    IF requireAuth(caller) # 0
    THEN /\ resp' = Response("submit", 401, caller, body, Undefined)
         /\ UNCHANGED store
    ELSE IF SubmitRefused(body)
    THEN /\ resp' = Response("submit", 400, caller, body, Undefined)
         /\ UNCHANGED store
    ELSE LET qs == getQuestionsByTheme(questions, body.themeId)
             scored == ScoreQuiz(qs, body.answers)
         IN /\ createQuizSession([userId |-> caller,
                                  themeId |-> body.themeId,
                                  score |-> scored.score,
                                  totalQuestions |-> Len(qs),
                                  timeSpent |-> body.timeSpent[2]])
            /\ resp' = Response("submit", 200, caller, body,
                                [session |-> quizSessions'[Len(quizSessions')],
                                 score |-> scored.score,
                                 totalQuestions |-> Len(qs),
                                 results |-> scored.results])
            /\ UNCHANGED <<users, themes, questions, currentThemeId,
                           currentQuestionId>>

----------------------------------------------------------------------------
(* POST /api/quiz/submit, several requests in flight.  A handler runs     *)
(* without interruption up to an await that yields, and another request's *)
(* handler may run there.  The submit handler yields at                   *)
(*   await storage.getQuestionsByTheme(themeId)   (the filter has run),   *)
(*   await storage.createQuizSession(...)         (createQuizSession,     *)
(*     updateUserStatsAfterQuiz and updateUserStats have run to their     *)
(*     return: none of them awaits a pending promise before its write),   *)
(* and then sends the response.                                           *)

Requests == 1..MaxInFlight

NoRequest == [pc |-> "idle"]

\* requireAuth and the handler up to its first await
SubmitBegin(r, caller, body) ==
    /\ inflight[r].pc = "idle"
    /\ inflight' =
          [inflight EXCEPT ![r] =
              IF requireAuth(caller) # 0
              THEN [pc |-> "responding",
                    response |-> Response("submit", 401, caller, body, Undefined)]
              ELSE IF SubmitRefused(body)
              THEN [pc |-> "responding",
                    response |-> Response("submit", 400, caller, body, Undefined)]
              ELSE [pc |-> "scoring", caller |-> caller, body |-> body,
                    questions |-> getQuestionsByTheme(questions, body.themeId)]]
    /\ UNCHANGED <<store, resp, quiz>>

\* the handler from the questions to its second await: the forEach and the
\* synchronous run of createQuizSession
SubmitStore(r) ==
    /\ inflight[r].pc = "scoring"
    /\ LET caller == inflight[r].caller
           body == inflight[r].body
           qs == inflight[r].questions
           scored == ScoreQuiz(qs, body.answers)
       IN /\ createQuizSession([userId |-> caller,
                                themeId |-> body.themeId,
                                score |-> scored.score,
                                totalQuestions |-> Len(qs),
                                timeSpent |-> body.timeSpent[2]])
          /\ inflight' =
                [inflight EXCEPT ![r] =
                    [pc |-> "responding",
                     response |->
                        Response("submit", 200, caller, body,
                                 [session |-> quizSessions'[Len(quizSessions')],
                                  score |-> scored.score,
                                  totalQuestions |-> Len(qs),
                                  results |-> scored.results])]]
    /\ UNCHANGED <<users, themes, questions, currentThemeId,
                   currentQuestionId, resp, quiz>>

\* res.json / res.status(..).json
SubmitRespond(r) ==
    /\ inflight[r].pc = "responding"
    /\ resp' = inflight[r].response
    /\ inflight' = [inflight EXCEPT ![r] = NoRequest]
    /\ UNCHANGED <<store, quiz>>

----------------------------------------------------------------------------
(* Auth routes.  POST /api/auth/register yields at                        *)
(*   await storage.getUserByEmail(data.email)        (the find has run),  *)
(*   await storage.getUserByUsername(data.username)  (the find has run),  *)
(*   await bcrypt.hash(...) inside createUser        (the hash is         *)
(*     computed off the event loop; nothing is stored yet),               *)
(* and then stores the user, sets the session and responds.  The first    *)
(* two awaits resume as microtasks, the third when the hash is ready: the *)
(* steps below allow another request at each of them, which includes the  *)
(* runs where it comes only while the hash is computed.                   *)

\* registerSchema.parse: the password has 6 characters or more and equals
\* confirmPassword (bodies carry this as the field valid); role is any
\* string or missing (here "")
RegisterValid(body) == body.valid

\* const { password, ...userWithoutPassword } = user
userWithoutPassword(user) == [f \in DOMAIN user \ {"password"} |-> user[f]]

getUserByEmail(email) == {u \in DOMAIN users : users[u].email = email}

getUserByUsername(username) == {u \in DOMAIN users : users[u].username = username}

\* createUser after the hash: the user record stored under the next id
\* (users are never deleted, so currentUserId is the number of users + 1)
createUser(insertUser) ==
    LET id == Cardinality(DOMAIN users) + 1
    IN Spread(insertUser,
              [id |-> id, password |-> Hash(insertUser.password),
               points |-> 0,
               role |-> IF insertUser.role = "" THEN "user" ELSE insertUser.role])

\* the handler up to its first await
RegisterBegin(r, caller, body) ==
    /\ inflight[r].pc = "idle"
    /\ inflight' =
          [inflight EXCEPT ![r] =
              IF ~RegisterValid(body)
              THEN [pc |-> "responding",
                    response |-> Response("register", 400, caller, body, Undefined)]
              ELSE [pc |-> "emailChecked", caller |-> caller, data |-> body,
                    existingUser |-> getUserByEmail(body.email) # {}]]
    /\ UNCHANGED <<store, resp, quiz>>

\* from the first await to the second
RegisterAfterEmail(r) ==
    /\ inflight[r].pc = "emailChecked"
    /\ LET caller == inflight[r].caller
           data == inflight[r].data
       IN inflight' =
             [inflight EXCEPT ![r] =
                 IF inflight[r].existingUser
                 THEN [pc |-> "responding",
                       response |-> Response("register", 400, caller, data, Undefined)]
                 ELSE [pc |-> "usernameChecked", caller |-> caller, data |-> data,
                       existingUsername |-> getUserByUsername(data.username) # {}]]
    /\ UNCHANGED <<store, resp, quiz>>

\* from the second await into createUser, up to await bcrypt.hash
RegisterAfterUsername(r) ==
    /\ inflight[r].pc = "usernameChecked"
    /\ LET caller == inflight[r].caller
           data == inflight[r].data
       IN inflight' =
             [inflight EXCEPT ![r] =
                 IF inflight[r].existingUsername
                 THEN [pc |-> "responding",
                       response |-> Response("register", 400, caller, data, Undefined)]
                 ELSE [pc |-> "hashing", caller |-> caller, data |-> data,
                       insertUser |->
                          [username |-> data.username, email |-> data.email,
                           password |-> data.password,
                           role |-> IF data.role = "" THEN "user" ELSE data.role]]]
    /\ UNCHANGED <<store, resp, quiz>>

\* createUser once the hash is there, and the handler up to res.json
RegisterCreate(r) ==
    /\ inflight[r].pc = "hashing"
    /\ LET user == createUser(inflight[r].insertUser)
       IN /\ users' = MapSet(users, user.id, user)
          /\ inflight' =
                [inflight EXCEPT ![r] =
                    [pc |-> "responding",
                     response |->
                        Response("register", 200, inflight[r].caller,
                                 inflight[r].data,
                                 [user |-> userWithoutPassword(user)])]]
    /\ UNCHANGED <<themes, questions, quizSessions, userStats, currentThemeId,
                   currentQuestionId, resp, quiz>>

\* res.json / res.status(400).json of the register handler
RegisterRespond(r) ==
    /\ inflight[r].pc = "responding"
    /\ resp' = inflight[r].response
    /\ inflight' = [inflight EXCEPT ![r] = NoRequest]
    /\ UNCHANGED <<store, quiz>>

\* validatePassword: bcrypt.compare(password, user.password)
\* (find gives the first user with the email)
validatePassword(email, password) ==
    LET found == getUserByEmail(email)
    IN {u \in found : /\ \A y \in found : u <= y
                      /\ users[u].password = Hash(password)}

\* POST /api/auth/login
Login(body) ==
    /\ resp' = IF validatePassword(body.email, body.password) = {}
               THEN Response("login", 401, NoSession, body, Undefined)
               ELSE LET u == CHOOSE u \in validatePassword(body.email, body.password) : TRUE
                    IN Response("login", 200, u, body,
                                [user |-> userWithoutPassword(users[u])])
    /\ UNCHANGED <<store, inflight, quiz>>

\* GET /api/auth/me
GetMe(caller) ==
    /\ resp' = IF caller = NoSession
               THEN Response("me", 401, caller, Undefined, Undefined)
               ELSE IF caller \notin DOMAIN users
               THEN Response("me", 404, caller, Undefined, Undefined)
               ELSE Response("me", 200, caller, Undefined,
                             [user |-> userWithoutPassword(users[caller])])
    /\ UNCHANGED <<store, inflight, quiz>>

----------------------------------------------------------------------------
(* The client's quiz page (client/src/pages/quiz.tsx) and its             *)
(* QuizInterface component, for one visit of /quiz/1 by the signed-in     *)
(* demo user.  quiz holds the page's quizState, the component's           *)
(* timeRemaining, and the mutation: posts are the bodies of the           *)
(* POST /api/quiz/submit requests sent so far, of which the server has    *)
(* handled the first `handled` and the client has received the answers of *)
(* the first `settled`; data is the JSON of the last successful answer.   *)
(* Date.now() is an input: timeSpent is drawn from TimeInputs.            *)

\* useParams' themeId of the visit
QuizThemeParam == 1

\* useState(30), setTimeRemaining(30)
QuestionSeconds == 30

NoQuiz ==
    [isStarted |-> FALSE, currentQuestionIndex |-> 0, answers |-> <<>>,
     isCompleted |-> FALSE, timeRemaining |-> QuestionSeconds,
     posts |-> <<>>, handled |-> 0, settled |-> 0, data |-> Undefined]

\* the data of useQuery(/api/themes/1/questions)
pageQuestions == getQuestionsByTheme(questions, Num(QuizThemeParam))

\* submitQuizMutation.isPending: the last mutate() has not settled
isPending(q) == q.settled < Len(q.posts)

\* the QuizInterface is rendered: started, not completed
QuizInterfaceShown == quiz.isStarted /\ ~quiz.isCompleted

\* quizState.answers as the JSON object of the request body
AnswersJson(answers) ==
    [type |-> "object", map |-> [k \in DOMAIN answers |-> Num(answers[k])]]

\* nextQuestion(): the page state after it; the effect on
\* currentQuestionIndex resets the timer
nextQuestion(q, timeSpent) ==
    LET nextIndex == q.currentQuestionIndex + 1
    IN IF nextIndex >= Len(pageQuestions)
       THEN [q EXCEPT !.posts = Append(@, [themeId |-> Num(QuizThemeParam),
                                           answers |-> AnswersJson(q.answers),
                                           timeSpent |-> Num(timeSpent)])]
       ELSE [q EXCEPT !.currentQuestionIndex = nextIndex,
                      !.timeRemaining = QuestionSeconds]

\* "Commencer le quiz"
startQuiz ==
    /\ ~quiz.isCompleted
    /\ ~quiz.isStarted
    /\ quiz' = [quiz EXCEPT !.isStarted = TRUE]
    /\ UNCHANGED <<store, resp, inflight>>

\* an option button: handleAnswerSelect, answerQuestion
answerQuestion(answerIndex) ==
    /\ QuizInterfaceShown
    /\ LET currentQuestion == pageQuestions[quiz.currentQuestionIndex + 1]
       IN quiz' = [quiz EXCEPT !.answers = MapSet(@, currentQuestion.id, answerIndex)]
    /\ UNCHANGED <<store, resp, inflight>>

\* one firing of the setInterval callback
TimerTick(timeSpent) ==
    /\ QuizInterfaceShown
    /\ quiz' = IF quiz.timeRemaining <= 1
               THEN [nextQuestion(quiz, timeSpent) EXCEPT
                        !.timeRemaining = QuestionSeconds]
               ELSE [quiz EXCEPT !.timeRemaining = @ - 1]
    /\ UNCHANGED <<store, resp, inflight>>

\* "Passer": disabled={isSubmitting}
ClickPasser(timeSpent) ==
    /\ QuizInterfaceShown
    /\ ~isPending(quiz)
    /\ quiz' = nextQuestion(quiz, timeSpent)
    /\ UNCHANGED <<store, resp, inflight>>

\* "Suivant" / "Terminer": disabled={selectedAnswer === undefined || isSubmitting}
ClickSuivant(timeSpent) ==
    /\ QuizInterfaceShown
    /\ pageQuestions[quiz.currentQuestionIndex + 1].id \in DOMAIN quiz.answers
    /\ ~isPending(quiz)
    /\ quiz' = nextQuestion(quiz, timeSpent)
    /\ UNCHANGED <<store, resp, inflight>>

\* the server handles the oldest request the page has sent
ServeQuizPost ==
    /\ quiz.handled < Len(quiz.posts)
    /\ SubmitQuiz(DemoUserId, quiz.posts[quiz.handled + 1])
    /\ quiz' = [quiz EXCEPT !.handled = @ + 1]
    /\ UNCHANGED inflight

\* the answer arrives: onSuccess on a 2xx status (apiRequest throws on any
\* other, and the mutation has no onError)
SettleQuizPost ==
    /\ resp.route = "submit"
    /\ quiz.settled < quiz.handled
    /\ quiz' = IF resp.status = 200
               THEN [quiz EXCEPT !.settled = @ + 1, !.isCompleted = TRUE,
                                 !.data = resp.body]
               ELSE [quiz EXCEPT !.settled = @ + 1]
    /\ resp' = NoResponse
    /\ UNCHANGED <<store, inflight>>

\* the completed view: score and "Points gagnés"
CompletedScore(q) == Cardinality(DOMAIN q.answers)

CompletedPoints(q) == CompletedScore(q) * 10

----------------------------------------------------------------------------
(* Admin catalog routes.  req.body reaches the store unvalidated.          *)

Refuse(route, status, caller) ==
    /\ resp' = Response(route, status, caller, Undefined, Undefined)
    /\ UNCHANGED store

\* POST /api/themes
CreateTheme(caller, body) ==
    /\ currentThemeId <= MaxThemeId
    /\ IF requireAdmin(caller) # 0
       THEN Refuse("createTheme", requireAdmin(caller), caller)
       ELSE /\ themes' = MapSet(themes, currentThemeId,
                           Spread(body, [id |-> currentThemeId,
                                         isActive |-> IF "isActive" \in DOMAIN body
                                                      THEN body.isActive ELSE TRUE]))
            /\ currentThemeId' = currentThemeId + 1
            /\ resp' = Response("createTheme", 200, caller, Undefined, Undefined)
            /\ UNCHANGED <<users, questions, quizSessions, userStats,
                           currentQuestionId>>

\* PUT /api/themes/:id
UpdateTheme(caller, param, body) ==
    LET id == ParseInt(param)
    IN IF requireAdmin(caller) # 0
       THEN Refuse("updateTheme", requireAdmin(caller), caller)
       ELSE IF IsNaN(id) THEN Refuse("updateTheme", 400, caller)
       ELSE IF id[2] \notin DOMAIN themes THEN Refuse("updateTheme", 404, caller)
       ELSE /\ themes' = MapSet(themes, id[2], Spread(themes[id[2]], body))
            /\ resp' = Response("updateTheme", 200, caller, Undefined, Undefined)
            /\ UNCHANGED <<users, questions, quizSessions, userStats,
                           currentThemeId, currentQuestionId>>

\* DELETE /api/themes/:id
DeleteTheme(caller, param) ==
    LET id == ParseInt(param)
    IN IF requireAdmin(caller) # 0
       THEN Refuse("deleteTheme", requireAdmin(caller), caller)
       ELSE IF IsNaN(id) THEN Refuse("deleteTheme", 400, caller)
       ELSE IF id[2] \notin DOMAIN themes THEN Refuse("deleteTheme", 404, caller)
       ELSE /\ themes' = MapDelete(themes, id[2])
            /\ resp' = Response("deleteTheme", 200, caller, Undefined, Undefined)
            /\ UNCHANGED <<users, questions, quizSessions, userStats,
                           currentThemeId, currentQuestionId>>

\* POST /api/themes/:themeId/questions
CreateQuestion(caller, param, body) ==
    LET themeId == ParseInt(param)
    IN /\ currentQuestionId <= MaxQuestionId
       /\ IF requireAdmin(caller) # 0
          THEN Refuse("createQuestion", requireAdmin(caller), caller)
          ELSE IF IsNaN(themeId) THEN Refuse("createQuestion", 400, caller)
          ELSE /\ questions' =
                    MapSet(questions, currentQuestionId,
                        Spread(Spread(body, [themeId |-> themeId]),
                               [id |-> currentQuestionId,
                                explanation |-> IF "explanation" \in DOMAIN body
                                                THEN body.explanation ELSE Null]))
               /\ currentQuestionId' = currentQuestionId + 1
               /\ resp' = Response("createQuestion", 200, caller, Undefined, Undefined)
               /\ UNCHANGED <<users, themes, quizSessions, userStats,
                              currentThemeId>>

\* PUT /api/questions/:id
UpdateQuestion(caller, param, body) ==
    LET id == ParseInt(param)
    IN IF requireAdmin(caller) # 0
       THEN Refuse("updateQuestion", requireAdmin(caller), caller)
       ELSE IF IsNaN(id) THEN Refuse("updateQuestion", 400, caller)
       ELSE IF id[2] \notin DOMAIN questions THEN Refuse("updateQuestion", 404, caller)
       ELSE /\ questions' = MapSet(questions, id[2], Spread(questions[id[2]], body))
            /\ resp' = Response("updateQuestion", 200, caller, Undefined, Undefined)
            /\ UNCHANGED <<users, themes, quizSessions, userStats,
                           currentThemeId, currentQuestionId>>

\* DELETE /api/questions/:id
DeleteQuestion(caller, param) ==
    LET id == ParseInt(param)
    IN IF requireAdmin(caller) # 0
       THEN Refuse("deleteQuestion", requireAdmin(caller), caller)
       ELSE IF IsNaN(id) THEN Refuse("deleteQuestion", 400, caller)
       ELSE IF id[2] \notin DOMAIN questions THEN Refuse("deleteQuestion", 404, caller)
       ELSE /\ questions' = MapDelete(questions, id[2])
            /\ resp' = Response("deleteQuestion", 200, caller, Undefined, Undefined)
            /\ UNCHANGED <<users, themes, quizSessions, userStats,
                           currentThemeId, currentQuestionId>>

----------------------------------------------------------------------------
(* Inputs of the requests *)

\* :id and :themeId path parameters: the numerals of the ids handed out so
\* far and of the next one (an id that never existed), and a parameter that
\* is no number
ThemeIdParams == {Str(n) : n \in 1..currentThemeId} \cup {Text}
QuestionIdParams == {Str(n) : n \in 1..currentQuestionId} \cup {Text}

\* correctAnswer values an admin sends: an option index, and -1 (no index)
CorrectAnswerInputs == {2, -1}

CreateThemeBodies == {[name |-> "Sciences"]}

\* a body with the name of the seed's theme 1
SameNameThemeBodies == {[name |-> "Informatique"]}
UpdateThemeBodies == {[isActive |-> FALSE]}
CreateQuestionBodies == {[correctAnswer |-> c] : c \in CorrectAnswerInputs}
UpdateQuestionBodies == {[correctAnswer |-> -1]}

\* values a client sends for one question: option indexes, -1, and the
\* string "1"
AnswerValues == {Num(-1), Num(0), Num(1), Str(1)}

\* answers objects over the ids of a set of questions (sparse)
AnswerObjects(ids) ==
    {[type |-> "object", map |-> m] :
        m \in UNION {[sub -> AnswerValues] : sub \in SUBSET ids}}

\* answers that is no object: a string ("abc"), or missing
NonObject(t) == [type |-> t, map |-> <<>>]

QuestionIdsOf(t) == {q \in DOMAIN questions : questions[q].themeId = Num(t)}

\* timeSpent values of well-formed bodies (seconds)
TimeInputs == {5}

\* well-formed request bodies of a submission: answers for the questions of
\* theme 1, and the empty answers object for the other theme ids
WellFormedBodies ==
    {[themeId |-> t, answers |-> a, timeSpent |-> Num(s)] :
        t \in {Num(1)}, a \in AnswerObjects(QuestionIdsOf(1)), s \in TimeInputs}
    \cup
    {[themeId |-> Num(t), answers |-> a, timeSpent |-> Num(s)] :
        t \in 2..currentThemeId, a \in AnswerObjects({}), s \in TimeInputs}

\* bodies with one field missing or of the wrong type: themeId the string
\* "1", 0 or missing; answers a string or missing; timeSpent the string "5"
\* or missing
MalformedBodies ==
    {[themeId |-> t, answers |-> NonObject("object"), timeSpent |-> Num(5)] :
        t \in {Str(1), Num(0), Undefined}}
    \cup
    {[themeId |-> Num(1), answers |-> NonObject(t), timeSpent |-> Num(5)] :
        t \in {"text", "undefined"}}
    \cup
    {[themeId |-> Num(1), answers |-> NonObject("object"), timeSpent |-> s] :
        s \in {Str(5), Undefined}}

\* a body whose timeSpent is a negative number (no answer given)
NegativeTimeBodies ==
    {[themeId |-> Num(1), answers |-> a, timeSpent |-> Num(-1)] :
        a \in AnswerObjects({})}

SubmitBodies == WellFormedBodies \cup MalformedBodies

\* an admin's PUT /api/questions/:id body that carries themeId as the
\* string "1"
RetagQuestionBodies == {[themeId |-> Str(1)]}

\* submissions whose themeId is the string "1", with no answer or with
\* option 1 for question 1
StringThemeBodies ==
    {[themeId |-> Str(1),
      answers |-> [type |-> "object", map |-> m],
      timeSpent |-> Num(5)] : m \in {<<>>, (1 :> Num(1))}}

----------------------------------------------------------------------------
(* The system *)

\* The store once seedData has run (the constructor starts it and it ends
\* after the two password hashes)
Init ==
    /\ users = SeedUsers
    /\ themes = SeedThemes
    /\ questions = SeedQuestions
    /\ quizSessions = <<>>
    /\ userStats = <<>>
    /\ currentThemeId = 2
    /\ currentQuestionId = 3
    /\ resp = NoResponse
    /\ inflight = [r \in Requests |-> NoRequest]
    /\ quiz = NoQuiz

\* The response is sent and the request ends; requests are served one at a
\* time (every handler runs to its response without yielding to another)
Finish ==
    /\ resp # NoResponse
    /\ resp' = NoResponse
    /\ UNCHANGED <<store, inflight, quiz>>

Idle == resp = NoResponse

GetQuestionsStep ==
    Idle /\ UNCHANGED <<inflight, quiz>> /\ \E caller \in Callers, param \in ThemeIdParams : GetQuestions(caller, param)

SubmitQuizStep ==
    Idle /\ UNCHANGED <<inflight, quiz>> /\ \E caller \in Callers, body \in SubmitBodies : SubmitQuiz(caller, body)

SubmitNegativeTimeStep ==
    Idle /\ UNCHANGED <<inflight, quiz>> /\ \E caller \in Callers, body \in NegativeTimeBodies : SubmitQuiz(caller, body)

ThemeAdminStep ==
    /\ Idle
    /\ UNCHANGED <<inflight, quiz>>
    /\ \/ \E caller \in Callers, body \in CreateThemeBodies : CreateTheme(caller, body)
       \/ \E caller \in Callers, param \in ThemeIdParams, body \in UpdateThemeBodies :
             UpdateTheme(caller, param, body)
       \/ \E caller \in Callers, param \in ThemeIdParams : DeleteTheme(caller, param)

QuestionEditStep ==
    /\ Idle
    /\ UNCHANGED <<inflight, quiz>>
    /\ \/ \E caller \in Callers, param \in ThemeIdParams, body \in CreateQuestionBodies :
             CreateQuestion(caller, param, body)
       \/ \E caller \in Callers, param \in QuestionIdParams, body \in UpdateQuestionBodies :
             UpdateQuestion(caller, param, body)

QuestionDeleteStep ==
    Idle /\ UNCHANGED <<inflight, quiz>> /\ \E caller \in Callers, param \in QuestionIdParams : DeleteQuestion(caller, param)

\* Attempts over a question catalog the admin extends and edits
Next ==
    \/ Len(quizSessions) < MaxAttempts /\ SubmitQuizStep
    \/ QuestionEditStep
    \/ Finish

Spec == Init /\ [][Next]_vars

\* The catalog routes: themes and questions under admin edits, and the
\* question lists served from them
NextCatalog ==
    \/ GetQuestionsStep
    \/ ThemeAdminStep
    \/ QuestionEditStep
    \/ QuestionDeleteStep
    \/ Finish

SpecCatalog == Init /\ [][NextCatalog]_vars

\* Submissions over the seed catalog: the session log and its statistics
NextStats ==
    \/ Len(quizSessions) < MaxSessions /\ SubmitQuizStep
    \/ Len(quizSessions) < MaxSessions /\ SubmitNegativeTimeStep
    \/ Finish

SpecStats == Init /\ [][NextStats]_vars

\* The store's createQuizSession called with any session data (the scores
\* of longer quizzes than the seed catalog cut above can give)
FoldScores == {0, 1, 5, 10}

CreateQuizSession(insertSession) ==
    /\ createQuizSession(insertSession)
    /\ UNCHANGED <<users, themes, questions, currentThemeId, currentQuestionId,
                   resp, inflight, quiz>>

NextFold ==
    /\ Len(quizSessions) < MaxSessions
    /\ \E t \in 1..currentThemeId, score \in FoldScores, time \in TimeInputs :
          CreateQuizSession([userId |-> DemoUserId, themeId |-> Num(t),
                             score |-> score, totalQuestions |-> 10,
                             timeSpent |-> time])

SpecFold == Init /\ [][NextFold]_vars

\* The leaderboards read over the growing session log
LeaderboardStep ==
    /\ Idle
    /\ UNCHANGED <<inflight, quiz>>
    /\ \/ GetGlobalLeaderboard
       \/ \E param \in ThemeIdParams : GetThemeLeaderboard(param)

NextBoard ==
    \/ Len(quizSessions) < MaxSessions /\ SubmitQuizStep
    \/ LeaderboardStep
    \/ Finish

SpecBoard == Init /\ [][NextBoard]_vars

\* The session log under everything that runs after a session was stored:
\* further submissions, the admin's theme and question changes, and the
\* leaderboard and statistics reads
MyStatsStep == Idle /\ UNCHANGED <<inflight, quiz>> /\ \E caller \in Callers : GetMyStats(caller)

\* the admin retires what sessions refer to: a theme is deactivated or
\* deleted, a question is deleted
CatalogRetireStep ==
    /\ Idle
    /\ UNCHANGED <<inflight, quiz>>
    /\ \/ \E caller \in Callers, param \in ThemeIdParams, body \in UpdateThemeBodies :
             UpdateTheme(caller, param, body)
       \/ \E caller \in Callers, param \in ThemeIdParams : DeleteTheme(caller, param)
       \/ \E caller \in Callers, param \in QuestionIdParams : DeleteQuestion(caller, param)

NextLog ==
    \/ Len(quizSessions) <= MaxAttempts /\ SubmitQuizStep
    \/ CatalogRetireStep
    \/ LeaderboardStep
    \/ MyStatsStep
    \/ Finish

SpecLog == Init /\ [][NextLog]_vars

\* The theme routes alone, with a theme created under a name in use
SameNameThemeStep ==
    /\ Idle
    /\ UNCHANGED <<inflight, quiz>>
    /\ \E caller \in Callers, body \in SameNameThemeBodies : CreateTheme(caller, body)

NextThemes ==
    \/ ThemeAdminStep
    \/ SameNameThemeStep
    \/ Finish

SpecThemes == Init /\ [][NextThemes]_vars

\* Submissions and theme leaderboards while an admin's question update
\* stores a themeId of another type
QuestionRetagStep ==
    /\ Idle
    /\ UNCHANGED <<inflight, quiz>>
    /\ \E caller \in Callers, param \in QuestionIdParams, body \in RetagQuestionBodies :
          UpdateQuestion(caller, param, body)

SubmitStringThemeStep ==
    /\ Idle
    /\ UNCHANGED <<inflight, quiz>>
    /\ \E caller \in Callers, body \in StringThemeBodies : SubmitQuiz(caller, body)

NextRetag ==
    \/ Len(quizSessions) <= MaxAttempts /\ SubmitQuizStep
    \/ Len(quizSessions) <= MaxAttempts /\ SubmitStringThemeStep
    \/ QuestionRetagStep
    \/ LeaderboardStep
    \/ Finish

SpecRetag == Init /\ [][NextRetag]_vars

\* Registrations in flight together.  A registration is sent without a
\* session or with the demo user's, never with an admin's.
RegisterCallers == {NoSession, DemoUserId}

\* a new email or the demo user's, a new username or the demo user's, no
\* role or the role admin; and a body whose passwords do not match
RegisterBodies ==
    {[email |-> e, username |-> n, password |-> "secret1", role |-> "", valid |-> TRUE] :
        e \in {"new@email.com", "john.doe@email.com"},
        n \in {"newbie", "johndoe"}}
    \cup
    {[email |-> "new@email.com", username |-> "newbie", password |-> "secret1",
      role |-> "admin", valid |-> TRUE],
     [email |-> "new@email.com", username |-> "newbie", password |-> "secret1",
      role |-> "", valid |-> FALSE]}

LoginBodies ==
    {[email |-> e, password |-> pw] :
        e \in {"john.doe@email.com", "new@email.com"}, pw \in {"user123", "secret1"}}

\* a registration arrives while fewer than MaxUsers users are stored or
\* about to be
RegisterBeginStep ==
    /\ Cardinality(DOMAIN users)
          + Cardinality({r \in Requests : inflight[r].pc \in
                            {"emailChecked", "usernameChecked", "hashing"}}) < MaxUsers
    /\ \E r \in Requests, caller \in RegisterCallers, body \in RegisterBodies :
          RegisterBegin(r, caller, body)

RegisterAfterEmailStep == \E r \in Requests : RegisterAfterEmail(r)

RegisterAfterUsernameStep == \E r \in Requests : RegisterAfterUsername(r)

RegisterCreateStep == \E r \in Requests : RegisterCreate(r)

RegisterRespondStep == \E r \in Requests : RegisterRespond(r)

LoginStep == Idle /\ \E body \in LoginBodies : Login(body)

GetMeStep == Idle /\ \E caller \in Callers : GetMe(caller)

NextRegister ==
    \/ RegisterBeginStep
    \/ RegisterAfterEmailStep
    \/ RegisterAfterUsernameStep
    \/ RegisterCreateStep
    \/ RegisterRespondStep

SpecRegister == Init /\ [][NextRegister]_vars

\* The routes that answer with user records: registrations served one at a
\* time, logins, the session's user, and the leaderboards
RegisterAloneStep ==
    /\ Idle
    /\ \A r \in Requests : inflight[r].pc = "idle"
    /\ Cardinality(DOMAIN users) < MaxUsers
    /\ \E caller \in RegisterCallers, body \in RegisterBodies :
          RegisterBegin(1, caller, body)

NextAuth ==
    \/ RegisterAloneStep
    \/ RegisterAfterEmailStep
    \/ RegisterAfterUsernameStep
    \/ RegisterCreateStep
    \/ RegisterRespondStep
    \/ LoginStep
    \/ GetMeStep
    \/ LeaderboardStep
    \/ Finish

SpecAuth == Init /\ [][NextAuth]_vars

\* Submissions in flight together: the requests of the users, each with the
\* answers of a score 0, 1 or 2 on the seed's theme 1, or with no answers
ConcurrentBodies ==
    {[themeId |-> Num(1),
      answers |-> [type |-> "object", map |-> m],
      timeSpent |-> Num(5)] : m \in {<<>>, (1 :> Num(1)), (1 :> Num(1)) @@ (2 :> Num(0))}}
    \cup
    {[themeId |-> Num(1), answers |-> NonObject("undefined"), timeSpent |-> Num(5)]}

\* the requests of one user (they all meet on the pair of that user and
\* theme 1), and requests without a session
ConcurrentCallers == {DemoUserId, NoSession}

\* a request arrives while fewer than MaxSessions sessions are stored or
\* about to be
SubmitBeginStep ==
    /\ Len(quizSessions)
          + Cardinality({r \in Requests : inflight[r].pc = "scoring"}) < MaxSessions
    /\ \E r \in Requests, caller \in ConcurrentCallers, body \in ConcurrentBodies :
          SubmitBegin(r, caller, body)

SubmitStoreStep == \E r \in Requests : SubmitStore(r)

SubmitRespondStep == \E r \in Requests : SubmitRespond(r)

NextConcurrent ==
    \/ SubmitBeginStep
    \/ SubmitStoreStep
    \/ SubmitRespondStep

SpecConcurrent == Init /\ [][NextConcurrent]_vars

----------------------------------------------------------------------------
(* One visit of the quiz page of theme 1 by the demo user, against the    *)
(* server's submit handler.                                               *)

\* the option indexes the visitor chooses from
ChosenOptions == {0, 1}

StartQuizStep == startQuiz

AnswerQuestionStep == \E answerIndex \in ChosenOptions : answerQuestion(answerIndex)

\* the page sends at most MaxPosts requests
TimerTickStep ==
    Len(quiz.posts) < MaxPosts /\ \E timeSpent \in TimeInputs : TimerTick(timeSpent)

ClickPasserStep ==
    Len(quiz.posts) < MaxPosts /\ \E timeSpent \in TimeInputs : ClickPasser(timeSpent)

ClickSuivantStep ==
    Len(quiz.posts) < MaxPosts /\ \E timeSpent \in TimeInputs : ClickSuivant(timeSpent)

ServeQuizPostStep == Idle /\ ServeQuizPost

SettleQuizPostStep == SettleQuizPost

NextQuizPage ==
    \/ StartQuizStep
    \/ AnswerQuestionStep
    \/ TimerTickStep
    \/ ClickPasserStep
    \/ ClickSuivantStep
    \/ ServeQuizPostStep
    \/ SettleQuizPostStep

SpecQuizPage == Init /\ [][NextQuizPage]_vars

----------------------------------------------------------------------------
(* Properties *)

SubmitAccepted == resp.route = "submit" /\ resp.status = 200

LastSession == quizSessions[Len(quizSessions)]

\* the (user, theme) pairs: a pair is what one statistics key stands for
Pairs == (DOMAIN users) \X (1..currentThemeId)

PairOf(session) == <<session.userId, session.themeId[2]>>

\* the stored sessions of a pair, in creation order
PairSessions(pair) == SelectSeq(quizSessions, LAMBDA s : PairOf(s) = pair)

PairScores(pair) ==
    LET ss == PairSessions(pair) IN [i \in 1..Len(ss) |-> ss[i].score]

\* a step that stores one new session
SessionAdded == Len(quizSessions') = Len(quizSessions) + 1

NewSession == quizSessions'[Len(quizSessions')]

\* C1: every successful submission with score S adds S x 10 to the
\* submitting user's points and leaves every other user's points unchanged
C1_PointsAwarded ==
    [][SessionAdded =>
         \A u \in DOMAIN users :
            users'[u].points =
               users[u].points + (IF u = NewSession.userId
                                  THEN 10 * NewSession.score ELSE 0)]_vars

\* C2: the score returned and stored by a submission satisfies
\* 0 <= score <= totalQuestions, totalQuestions being the number of
\* questions scored
C2_ScoreWithinTotal ==
    /\ \A i \in DOMAIN quizSessions :
          /\ 0 <= quizSessions[i].score
          /\ quizSessions[i].score <= quizSessions[i].totalQuestions
    /\ SubmitAccepted =>
          /\ resp.body.session = LastSession
          /\ resp.body.score = LastSession.score
          /\ resp.body.totalQuestions = LastSession.totalQuestions
          /\ resp.body.totalQuestions = Len(resp.body.results)
          /\ resp.body.totalQuestions =
                Len(getQuestionsByTheme(questions, resp.req.themeId))
          /\ 0 <= resp.body.score
          /\ resp.body.score <= resp.body.totalQuestions

\* a submission that answers every question of a two-question theme right
C2_Witness ==
    /\ SubmitAccepted
    /\ resp.body.totalQuestions = 2
    /\ resp.body.score = 2

\* the answers mapping maps the question's id to exactly its correctAnswer
MapsToCorrectAnswer(answers, q) ==
    /\ answers.type = "object"
    /\ q.id \in DOMAIN answers.map
    /\ answers.map[q.id] = Num(q.correctAnswer)

\* C3: the score is the number of the theme's questions whose id maps to
\* exactly the question's correctAnswer, and the results list has one entry
\* {questionId, correct, correctAnswer} per question, in question order, with
\* correct true exactly for those questions
C3_ScoreCountsExactMatches ==
    SubmitAccepted =>
       LET qs == getQuestionsByTheme(questions, resp.req.themeId)
           answers == resp.req.answers
       IN /\ resp.body.score =
                Cardinality({i \in 1..Len(qs) : MapsToCorrectAnswer(answers, qs[i])})
          /\ resp.body.results =
                [i \in 1..Len(qs) |->
                    [questionId |-> qs[i].id,
                     correct |-> MapsToCorrectAnswer(answers, qs[i]),
                     correctAnswer |-> qs[i].correctAnswer]]

\* the valid option indexes of a question's four options
OptionIndexes == {Num(n) : n \in 0..3}

\* C4: a question that is unanswered, or whose mapped value is no valid
\* option index, is scored as not correct and the submission does not fail;
\* an empty answers mapping over a non-empty question set gives score 0
C4_UnansweredNeverCorrect ==
    /\ resp.route = "submit" => resp.status # 500
    /\ SubmitAccepted =>
          /\ \A i \in DOMAIN resp.body.results :
                AnswerAt(resp.req.answers, resp.body.results[i].questionId)
                      \notin OptionIndexes
                   => ~resp.body.results[i].correct
          /\ (resp.req.answers.map = <<>> /\ resp.body.totalQuestions > 0)
                => resp.body.score = 0

\* the questions Map with one question's correctAnswer and explanation
\* replaced
WithAnswer(qmap, q, c, e) ==
    [x \in DOMAIN qmap |->
        IF x = q THEN Spread(qmap[x], [correctAnswer |-> c, explanation |-> e])
        ELSE qmap[x]]

QuestionsServed == resp.route = "getQuestions" /\ resp.status = 200

\* C5: the question list a non-admin caller receives carries neither
\* correctAnswer nor explanation, and is the same whatever the stored
\* correctAnswer and explanation of any question are; an admin caller
\* receives both fields as stored
C5_AnswersHiddenFromNonAdmin ==
    QuestionsServed =>
       IF users[resp.caller].role # "admin"
       THEN /\ \A i \in DOMAIN resp.body :
                  /\ "correctAnswer" \notin DOMAIN resp.body[i]
                  /\ "explanation" \notin DOMAIN resp.body[i]
            /\ \A q \in DOMAIN questions, c \in -1..3, e \in {Null, Text} :
                  QuestionsResult(WithAnswer(questions, q, c, e),
                                  resp.caller, resp.req) = <<200, resp.body>>
       ELSE \A i \in DOMAIN resp.body :
               /\ resp.body[i].correctAnswer
                     = questions[resp.body[i].id].correctAnswer
               /\ resp.body[i].explanation
                     = questions[resp.body[i].id].explanation

\* the demo user is served the two seed questions, one of which has an
\* explanation
C5_Witness ==
    /\ QuestionsServed
    /\ resp.caller = DemoUserId
    /\ Len(resp.body) = 2
    /\ \E q \in DOMAIN questions :
          questions[q].themeId = Num(1) /\ questions[q].explanation = Text

\* C6: fetching the questions of a theme id that names no theme, or a theme
\* whose isActive is false, fails with 404
C6_MissingOrInactiveThemeNotFound ==
    (/\ resp.route = "getQuestions"
     /\ resp.caller # NoSession
     /\ ~IsNaN(ParseInt(resp.req))) =>
        LET t == ParseInt(resp.req)[2]
        IN (t \notin DOMAIN themes \/ ~themes[t].isActive) => resp.status = 404

\* a request body with themeId, answers or timeSpent missing or of the wrong
\* type
Malformed(body) ==
    \/ TypeOf(body.themeId) # "number"
    \/ body.answers.type # "object"
    \/ TypeOf(body.timeSpent) # "number"

\* C7: a submission whose themeId, answers or timeSpent is missing or
\* malformed is answered 400, and creates no session and changes no
\* statistics row
C7_MalformedSubmitRejected ==
    [][(/\ resp'.route = "submit"
        /\ resp.route = "none"
        /\ resp'.caller # NoSession
        /\ Malformed(resp'.req)) =>
           /\ resp'.status = 400
           /\ UNCHANGED <<quizSessions, userStats>>]_vars

\* totalQuizzes of a pair's statistics row, 0 when the pair has no row
TotalQuizzes(stats, pair) ==
    IF pair \in DOMAIN stats THEN stats[pair].totalQuizzes ELSE 0

\* a row exists for exactly the pairs that have sessions, and counts them
C8_CountsSessions ==
    /\ DOMAIN userStats = {pair \in Pairs : Len(PairSessions(pair)) > 0}
    /\ \A pair \in DOMAIN userStats :
          userStats[pair].totalQuizzes = Len(PairSessions(pair))

\* an accepted submission stores exactly one more session, of the caller,
\* and adds exactly 1 to the pair's totalQuizzes
C8_SubmissionCountsOnce ==
    (resp.route = "none" /\ resp'.route = "submit" /\ resp'.status = 200) =>
        /\ SessionAdded
        /\ SubSeq(quizSessions', 1, Len(quizSessions)) = quizSessions
        /\ NewSession.userId = resp'.caller
        /\ \A pair \in Pairs :
              TotalQuizzes(userStats', pair) =
                 TotalQuizzes(userStats, pair)
                    + (IF pair = PairOf(NewSession) THEN 1 ELSE 0)

\* C8: for each (user, theme) pair totalQuizzes equals the number of stored
\* sessions of the pair (no row when there are none); each successful
\* submission adds one session row and 1 to totalQuizzes, a replayed
\* submission included
C8_TotalQuizzesCountsSessions ==
    []C8_CountsSessions /\ [][C8_SubmissionCountsOnce]_vars

\* the same submission sent twice: two session rows that differ in their id
\* only, and totalQuizzes 2
C8_Witness ==
    /\ Len(quizSessions) = 2
    /\ quizSessions[2] = [quizSessions[1] EXCEPT !.id = 2]
    /\ quizSessions[1].score = 1
    /\ userStats[PairOf(quizSessions[1])].totalQuizzes = 2

\* r is x / d rounded to the nearest integer, a half rounded up
NearestHalfUp(r, x, d) == 2 * d * r - d <= 2 * x /\ 2 * x < 2 * d * r + d

\* the first session of a pair sets averageScore to its score; a later one
\* with score S sets it to round((prior average x prior count + S) /
\* (prior count + 1))
C9_AverageStep ==
    SessionAdded =>
       LET pair == PairOf(NewSession)
           S == NewSession.score
       IN IF pair \in DOMAIN userStats
          THEN NearestHalfUp(userStats'[pair].averageScore,
                             userStats[pair].averageScore
                                * userStats[pair].totalQuizzes + S,
                             userStats[pair].totalQuizzes + 1)
          ELSE userStats'[pair].averageScore = S

\* the sessions with scores [10, 5] of a fresh pair give the averages 10, 8
C9_Example ==
    \A pair \in DOMAIN userStats :
       /\ PairScores(pair) = <<10>> => userStats[pair].averageScore = 10
       /\ PairScores(pair) = <<10, 5>> => userStats[pair].averageScore = 8

\* C9: the new averageScore is round((prior.averageScore x
\* prior.totalQuizzes + S) / (prior.totalQuizzes + 1)), from the previously
\* rounded average, halves rounded up; scores [10, 5] give 10 then 8
C9_RunningAverageRounded ==
    [][C9_AverageStep]_vars /\ []C9_Example

C9_Witness ==
    \E pair \in DOMAIN userStats :
       /\ PairScores(pair) = <<10, 5>>
       /\ userStats[pair].averageScore = 8

\* C10: a pair's bestScore never decreases, and after a session with score
\* S it is the larger of the prior bestScore and S
C10_BestScoreMonotonic ==
    [][/\ \A pair \in DOMAIN userStats :
             /\ pair \in DOMAIN userStats'
             /\ userStats'[pair].bestScore >= userStats[pair].bestScore
       /\ SessionAdded =>
             LET pair == PairOf(NewSession)
                 S == NewSession.score
                 best == userStats'[pair].bestScore
             IN IF pair \in DOMAIN userStats
                THEN /\ best >= S
                     /\ best >= userStats[pair].bestScore
                     /\ best \in {S, userStats[pair].bestScore}
                ELSE best = S]_vars

\* a pair whose second session scored lower than its first keeps the first
\* score as bestScore
C10_Witness ==
    \E pair \in DOMAIN userStats :
       /\ PairScores(pair) = <<2, 1>>
       /\ userStats[pair].bestScore = 2


\* the sum of the scores of the first n stored sessions that belong to user u
RECURSIVE ScoreSum(_, _)
ScoreSum(u, n) ==
    IF n = 0 THEN 0
    ELSE ScoreSum(u, n - 1)
           + (IF quizSessions[n].userId = u THEN quizSessions[n].score ELSE 0)

\* the users Map with every points accumulator set to p
WithPoints(p) == [u \in DOMAIN users |-> [users[u] EXCEPT !.points = p]]

TotalScores(board) == {<<board[i].id, board[i].totalScore>> : i \in DOMAIN board}

GlobalServed == resp.route = "globalLeaderboard" /\ resp.status = 200

\* C11: the global leaderboard holds one entry for every user, and each
\* entry's totalScore is the sum of score over that user's stored sessions
\* (0 with no session), whatever the points accumulators are
C11_GlobalLeaderboardSumsSessions ==
    GlobalServed =>
       /\ Len(resp.body) = Cardinality(DOMAIN users)
       /\ \A u \in DOMAIN users : \E i \in DOMAIN resp.body : resp.body[i].id = u
       /\ \A i \in DOMAIN resp.body :
             resp.body[i].totalScore = ScoreSum(resp.body[i].id, Len(quizSessions))
       /\ \A p \in {0, 30} :
             TotalScores(getGlobalLeaderboard(WithPoints(p), quizSessions))
                = TotalScores(resp.body)

\* the board is served when one user has two scoring sessions (2 + 1) and
\* the other user has none
C11_Witness ==
    /\ GlobalServed
    /\ \E i, j \in DOMAIN resp.body :
          /\ resp.body[i].totalScore = 3
          /\ Len(SelectSeq(quizSessions,
                           LAMBDA s : s.userId = resp.body[i].id /\ s.score > 0)) = 2
          /\ resp.body[j].totalScore = 0
          /\ \A n \in DOMAIN quizSessions : quizSessions[n].userId # resp.body[j].id

ThemeServed == resp.route = "themeLeaderboard" /\ resp.status = 200

\* the users with a stored session whose themeId is the theme id t
UsersWithSessionFor(t) ==
    {quizSessions[n].userId : n \in {m \in DOMAIN quizSessions :
                                        quizSessions[m].themeId = t}}

C13_CorrectAnswerIsOptionIndex ==
    \A q \in DOMAIN questions : questions[q].correctAnswer \in 0..3

AdminRoutes ==
    {"createTheme", "updateTheme", "deleteTheme",
     "createQuestion", "updateQuestion", "deleteQuestion"}

\* a step in which an admin route answers a request
AdminRouteAnswers == resp.route = "none" /\ resp'.route \in AdminRoutes

CatalogUnchanged == themes' = themes /\ questions' = questions

\* C14: the catalog (themes, questions) changes only in a step of a catalog
\* route whose caller has the role admin; a request with no session gets 401
\* and one of a non-admin user gets 403, and both leave the catalog unchanged
C14_CatalogChangesNeedAdmin ==
    [][/\ ~CatalogUnchanged =>
             /\ AdminRouteAnswers
             /\ resp'.status = 200
             /\ resp'.caller \in DOMAIN users
             /\ users[resp'.caller].role = "admin"
       /\ (AdminRouteAnswers /\ resp'.caller = NoSession) =>
             resp'.status = 401 /\ CatalogUnchanged
       /\ (AdminRouteAnswers /\ resp'.caller \in DOMAIN users
             /\ users[resp'.caller].role # "admin") =>
             resp'.status = 403 /\ CatalogUnchanged]_vars

\* the demo user's DELETE of the existing theme 1 is refused with 403, after
\* the admin has added a question
C14_Witness ==
    /\ resp.route = "deleteTheme"
    /\ resp.status = 403
    /\ resp.caller = DemoUserId
    /\ 1 \in DOMAIN themes
    /\ currentQuestionId > 3


\* C15: every stored session has timeSpent >= 0, whatever submission the
\* server accepted
C15_TimeSpentNonNegative ==
    \A n \in DOMAIN quizSessions : quizSessions[n].timeSpent >= 0


\* the sessions stored before a step are the first sessions after it, field
\* for field
LogExtended ==
    /\ Len(quizSessions') >= Len(quizSessions)
    /\ SubSeq(quizSessions', 1, Len(quizSessions)) = quizSessions

\* C16: the session log is append-only: no step (a submission, an admin
\* change of the catalog, a leaderboard or statistics read) changes a field
\* of a stored session or removes one, and ids are unique and strictly
\* increasing in creation order
C16_SessionsAppendOnly ==
    [][/\ LogExtended
       /\ \A i, j \in DOMAIN quizSessions' :
             i < j => quizSessions'[i].id < quizSessions'[j].id]_vars

\* two sessions for theme 1 are stored, theme 1 and question 1 have been
\* deleted, and theme 1's leaderboard is served
C16_Witness ==
    /\ Len(quizSessions) = 2
    /\ \A n \in DOMAIN quizSessions : quizSessions[n].themeId = Num(1)
    /\ 1 \notin DOMAIN themes
    /\ 1 \notin DOMAIN questions
    /\ ThemeServed
    /\ resp.body # <<>>


\* C17: every stored question's themeId is the id of an existing theme,
\* after any catalog operation
C17_QuestionThemeExists ==
    \A q \in DOMAIN questions :
        questions[q].themeId \in {Num(t) : t \in DOMAIN themes}

\* C18: no two themes have the same name, after any admin theme creation
\* or update
C18_ThemeNamesUnique ==
    \A a, b \in DOMAIN themes : themes[a].name = themes[b].name => a = b


RECURSIVE SumTimeSpent(_)
SumTimeSpent(sessions) ==
    IF sessions = <<>> THEN 0
    ELSE Head(sessions).timeSpent + SumTimeSpent(Tail(sessions))

LargestScore(sessions) ==
    CHOOSE x \in {sessions[i].score : i \in DOMAIN sessions} :
        \A i \in DOMAIN sessions : sessions[i].score <= x

\* C19: with submissions in flight together and interleaved at their awaits,
\* no statistics update is lost and no partial row shows: in every state
\* each pair's row counts the pair's stored sessions, sums their timeSpent
\* and holds their maximal score (a pair without session has no row), as
\* after the same submissions served one at a time in creation order
C19_ConcurrentSubmissionsSerial ==
    \A pair \in Pairs :
        LET sessions == PairSessions(pair)
        IN IF sessions = <<>> THEN pair \notin DOMAIN userStats
           ELSE /\ pair \in DOMAIN userStats
                /\ userStats[pair].totalQuizzes = Len(sessions)
                /\ userStats[pair].totalTimeSpent = SumTimeSpent(sessions)
                /\ userStats[pair].bestScore = LargestScore(sessions)

\* two requests of the same user for theme 1 were in flight together: both
\* are about to answer 200, the request of slot 1 stored its session after
\* the request of slot 2, a third session was stored before them, and the
\* pair's row counts all three
C19_Witness ==
    /\ \A r \in {1, 2} :
          /\ inflight[r].pc = "responding"
          /\ inflight[r].response.status = 200
          /\ inflight[r].response.caller = DemoUserId
    /\ inflight[1].response.body.session.id = 3
    /\ inflight[2].response.body.session.id = 2
    /\ inflight[1].response.body.score # inflight[2].response.body.score
    /\ userStats[<<DemoUserId, 1>>].totalQuizzes = 3


\* the aggregates after the sessions of a pair, replayed in creation order:
\* the first session sets them, each later one increments the count, keeps
\* the larger score, adds its time and moves the average to the rounded
\* mean of (average x count + score) over count + 1
RECURSIVE Replay(_)
Replay(sessions) ==
    LET n == Len(sessions)
        last == sessions[n]
        prior == Replay(SubSeq(sessions, 1, n - 1))
    IN IF n = 1
       THEN [totalQuizzes |-> 1, bestScore |-> last.score,
             averageScore |-> last.score, totalTimeSpent |-> last.timeSpent]
       ELSE [totalQuizzes |-> n,
             bestScore |-> IF last.score > prior.bestScore
                           THEN last.score ELSE prior.bestScore,
             averageScore |->
                CHOOSE r \in 0..(prior.averageScore + last.score) :
                   NearestHalfUp(r, prior.averageScore * prior.totalQuizzes
                                      + last.score, n),
             totalTimeSpent |-> prior.totalTimeSpent + last.timeSpent]

Aggregates(row) ==
    [totalQuizzes |-> row.totalQuizzes, bestScore |-> row.bestScore,
     averageScore |-> row.averageScore, totalTimeSpent |-> row.totalTimeSpent]

\* C20: in every reachable state the row of each (user, theme) pair is what
\* replaying the pair's stored sessions in creation order through the update
\* yields, and a pair without session has no row
C20_StatsReplaySessions ==
    /\ \A pair \in Pairs :
          LET sessions == PairSessions(pair)
          IN IF sessions = <<>> THEN pair \notin DOMAIN userStats
             ELSE /\ pair \in DOMAIN userStats
                  /\ Aggregates(userStats[pair]) = Replay(sessions)
    /\ DOMAIN userStats \subseteq Pairs

\* three sessions of one pair with scores 2, 1, 1: the replayed average is 2
\* (round(3/2) = 2, then round(5/3) = 2) while the mean of the scores is 4/3
C20_Witness ==
    \E pair \in DOMAIN userStats :
       /\ PairScores(pair) = <<2, 1, 1>>
       /\ userStats[pair].averageScore = 2
       /\ userStats[pair].totalQuizzes = 3


\* C21: for every user listed on a theme's leaderboard, the bestScore the
\* leaderboard reports equals the bestScore of the statistics row of that
\* (user, theme) pair
C21_BoardBestIsStatsBest ==
    ThemeServed =>
       \A i \in DOMAIN resp.body :
          LET key == StatsKey(resp.body[i].id, ParseInt(resp.req))
          IN /\ key \in DOMAIN userStats
             /\ userStats[key].bestScore = resp.body[i].bestScore


\* C22: the global leaderboard is in non-increasing order of totalScore, and
\* users of equal totalScore are in the insertion order of the users Map
\* (increasing id)
C22_GlobalLeaderboardOrder ==
    GlobalServed =>
       \A i, j \in DOMAIN resp.body :
          i < j =>
             /\ resp.body[i].totalScore >= resp.body[j].totalScore
             /\ resp.body[i].totalScore = resp.body[j].totalScore =>
                   resp.body[i].id < resp.body[j].id

\* the board is served with both users at the same positive total
C22_Witness ==
    /\ GlobalServed
    /\ Len(resp.body) = 2
    /\ resp.body[1].totalScore = resp.body[2].totalScore
    /\ resp.body[1].totalScore > 0


\* a row exists only for a pair with a stored session, and it is the only
\* row that names the pair
C23_RowsOfPairsWithSessions ==
    \A key \in DOMAIN userStats :
       /\ PairSessions(key) # <<>>
       /\ <<userStats[key].userId, userStats[key].themeId[2]>> = key

\* no row is deleted, and a new row is the row of the pair of the session
\* the step stores, that pair's first, with totalQuizzes 1 and the session's
\* score and time
C23_RowCreatedByFirstSession ==
    /\ \A key \in DOMAIN userStats : key \in DOMAIN userStats'
    /\ \A key \in DOMAIN userStats' \ DOMAIN userStats :
          /\ SessionAdded
          /\ PairOf(NewSession) = key
          /\ PairSessions(key) = <<>>
          /\ Aggregates(userStats'[key])
                = [totalQuizzes |-> 1, bestScore |-> NewSession.score,
                   averageScore |-> NewSession.score,
                   totalTimeSpent |-> NewSession.timeSpent]

\* C23: a statistics row of a (user, theme) pair exists only after the
\* pair's first session, which creates it with totalQuizzes 1, bestScore S,
\* averageScore S and totalTimeSpent T; it is never deleted, and a pair
\* never has more than one row
C23_StatsRowLifecycle ==
    []C23_RowsOfPairsWithSessions /\ [][C23_RowCreatedByFirstSession]_vars

\* the first session of a pair, with score 2, has just created the pair's
\* row, next to the older row of another pair
C23_Witness ==
    /\ SubmitAccepted
    /\ LastSession.score = 2
    /\ Len(PairSessions(PairOf(LastSession))) = 1
    /\ Len(quizSessions) > 1
    /\ Aggregates(userStats[PairOf(LastSession)])
          = [totalQuizzes |-> 1, bestScore |-> 2, averageScore |-> 2,
             totalTimeSpent |-> LastSession.timeSpent]


\* no stored question has the themeId the accepted submission names
SubmittedForEmptyTheme ==
    /\ SubmitAccepted
    /\ \A q \in DOMAIN questions : questions[q].themeId # resp.req.themeId

\* C24: a submission for a theme with zero questions yields score 0 and
\* totalQuestions 0, and every row's averageScore is a defined integer, 0
\* when all sessions of the pair had zero questions, however many they are
C24_EmptyThemeAverageDefined ==
    /\ SubmittedForEmptyTheme =>
          /\ resp.body.score = 0 /\ resp.body.totalQuestions = 0
          /\ LastSession.score = 0 /\ LastSession.totalQuestions = 0
    /\ \A key \in DOMAIN userStats :
          /\ userStats[key].averageScore \in Nat
          /\ (\A i \in DOMAIN PairSessions(key) :
                 PairSessions(key)[i].totalQuestions = 0)
                => userStats[key].averageScore = 0

\* theme 1 exists and has lost its questions, and a user's second submission
\* for it is answered: score 0, and the pair's average is 0
C24_Witness ==
    /\ SubmittedForEmptyTheme
    /\ resp.req.themeId = Num(1)
    /\ 1 \in DOMAIN themes
    /\ Len(PairSessions(PairOf(LastSession))) = 2
    /\ \A i \in {1, 2} : PairSessions(PairOf(LastSession))[i].totalQuestions = 0
    /\ userStats[PairOf(LastSession)].averageScore = 0


\* C25: for each pair with a row, averageScore lies between the smallest
\* and the largest score of the pair's stored sessions, and so is at most
\* bestScore
C25_AverageWithinScores ==
    \A key \in DOMAIN userStats :
       LET scores == PairScores(key)
       IN /\ \E i \in DOMAIN scores : scores[i] <= userStats[key].averageScore
          /\ \E i \in DOMAIN scores : userStats[key].averageScore <= scores[i]
          /\ userStats[key].averageScore <= userStats[key].bestScore

\* scores 1, 0, 0: the average stays 1 (round(1/2) = 1, round(2/3) = 1), the
\* largest score, while the mean of the scores is 1/3
C25_Witness ==
    \E key \in DOMAIN userStats :
       /\ PairScores(key) = <<1, 0, 0>>
       /\ userStats[key].averageScore = 1
       /\ userStats[key].bestScore = 1


\* C26: no two users share an email and no two users share a username, also
\* with several registrations in flight at once
C26_EmailAndUsernameUnique ==
    \A a, b \in DOMAIN users :
       (users[a].email = users[b].email \/ users[a].username = users[b].username)
          => a = b

\* C27: an account registered without an admin session has the role user:
\* the users that pass requireAdmin are the administrators of the seed
C27_RegisteredRoleIsUser ==
    /\ \A u \in DOMAIN users \ DOMAIN SeedUsers : users[u].role = "user"
    /\ \A u \in DOMAIN users : requireAdmin(u) = 0 => u \in DOMAIN SeedUsers

\* C28: no response carries a user's stored password: neither the user of a
\* register, login or me response nor an entry of a leaderboard
C28_NoPasswordInResponses ==
    /\ (resp.route \in {"register", "login", "me"} /\ resp.status = 200) =>
          "password" \notin DOMAIN resp.body.user
    /\ (GlobalServed \/ ThemeServed) =>
          \A i \in DOMAIN resp.body : "password" \notin DOMAIN resp.body[i]

\* C29: one started attempt of the quiz page sends at most one
\* POST /api/quiz/submit: once the last question has triggered the
\* submission, neither the timer nor Passer / Suivant sends a second one.
C29_AtMostOneSubmitPerAttempt == Len(quiz.posts) <= 1

\* C29, its last part: a step taken before the last question (answering,
\* advancing, a timer firing) sends nothing to the server.
C29_NoPostBeforeLastQuestion ==
    [][quiz.currentQuestionIndex + 1 < Len(pageQuestions)
          => quiz'.posts = quiz.posts]_vars

C29_NoPostBeforeLastQuestion_Witness ==
    /\ quiz.currentQuestionIndex = 1
    /\ quiz.answers # <<>>
    /\ quiz.posts = <<>>

\* C30: the score and the points shown on the completed screen are the
\* score the server computed for the submission, and that score times 10.
C30_CompletedScreenShowsServerScore ==
    quiz.isCompleted =>
        /\ CompletedScore(quiz) = quiz.data.score
        /\ CompletedPoints(quiz) = quiz.data.score * 10

====
